---- MODULE Spec2Model ----
(***************************************************************************)
(* Model of analyze_open_close_diff.py: main() reads a CSV of daily prices, *)
(* averages close - open per calendar month, scales the averages into the  *)
(* plot area and writes an SVG line chart.                                  *)
(*                                                                         *)
(* Python floats are modelled as a binary floating-point format with       *)
(* MantBits significant bits and round-to-nearest, ties-to-even.  A float   *)
(* is represented by the integer number of quanta it holds, the quantum    *)
(* being 2^-FracBits, so the float 1.0 is the integer One.                  *)
(***************************************************************************)
EXTENDS Integers, Sequences, FiniteSets, TLC

\* ---------------------------------------------------------------- bounds
MaxRows == 3
MantBits == 8
FracBits == 8

\* ------------------------------------------------------ program constants
SVG_WIDTH == 1000
SVG_HEIGHT == 600
MARGIN_LEFT == 80
MARGIN_RIGHT == 40
MARGIN_TOP == 50
MARGIN_BOTTOM == 80
tick_count == 6

\* ------------------------------------------------------- float arithmetic
RECURSIVE Pow2(_)
Pow2(n) == IF n = 0 THEN 1 ELSE 2 * Pow2(n - 1)

One == Pow2(FracBits)

\* the first magnitude that needs more than MantBits bits
MantLimit == Pow2(MantBits)

\* The power of two by which n/d must be divided to fit MantBits bits.
RECURSIVE Scale(_, _)
Scale(n, d) == IF n \div d < MantLimit THEN 1 ELSE 2 * Scale(n, 2 * d)

\* n/d >= 0 rounded to MantBits significant bits, ties to even.
RoundMag(n, d) ==
    LET s  == Scale(n, d)
        dd == d * s
        q  == n \div dd
        r  == n % dd
        up == (2 * r > dd) \/ (2 * r = dd /\ q % 2 = 1)
    IN  (IF up THEN q + 1 ELSE q) * s

\* The float nearest to the rational n/d quanta (d # 0).
Round(n, d) ==
    LET nn == IF d < 0 THEN -n ELSE n
        dd == IF d < 0 THEN -d ELSE d
    IN  IF nn < 0 THEN -RoundMag(-nn, dd) ELSE RoundMag(nn, dd)

\* float(i) for a Python int i
ToFloat(i) == Round(i * One, 1)

FAdd(a, b) == Round(a + b, 1)
FSub(a, b) == Round(a - b, 1)
FMul(a, b) == Round(a * b, One)
\* a / b for b # 0; the callers raise ZeroDivisionError when b = 0
FDiv(a, b) == Round(a * One, b)
\* i / j for Python ints (true division, correctly rounded), j # 0
IntTrueDiv(i, j) == Round(i * One, j)

\* format(v, ".2f"): the number of hundredths nearest to the float v
Fmt2(v) ==
    LET n == IF v < 0 THEN -v ELSE v
        q == (n * 100) \div One
        r == (n * 100) % One
        h == IF 2 * r > One \/ (2 * r = One /\ q % 2 = 1) THEN q + 1 ELSE q
    IN  IF v < 0 THEN -h ELSE h

\* ------------------------------------------------------------- datetime
IsLeap(y) == (y % 4 = 0) /\ ((y % 100 # 0) \/ (y % 400 = 0))

DaysInMonth(y, m) ==
    IF m = 2 THEN (IF IsLeap(y) THEN 29 ELSE 28)
    ELSE IF m \in {4, 6, 9, 11} THEN 30 ELSE 31

RECURSIVE DaysBeforeMonth(_, _)
DaysBeforeMonth(y, m) ==
    IF m = 1 THEN 0 ELSE DaysBeforeMonth(y, m - 1) + DaysInMonth(y, m - 1)

DaysBeforeYear(y) ==
    (y - 1) * 365 + ((y - 1) \div 4) - ((y - 1) \div 100) + ((y - 1) \div 400)

\* datetime(year, month, day)
DateTime(y, m, d) == [year |-> y, month |-> m, day |-> d]

\* datetime.toordinal(): days since 0001-01-01, plus one
Ordinal(dt) == DaysBeforeYear(dt.year) + DaysBeforeMonth(dt.year, dt.month) + dt.day

\* (a - b).days
DaysBetween(a, b) == Ordinal(a) - Ordinal(b)

\* a < b and a <= b on datetimes
DateLT(a, b) ==
    \/ a.year < b.year
    \/ a.year = b.year /\ a.month < b.month
    \/ a.year = b.year /\ a.month = b.month /\ a.day < b.day

DateLE(a, b) == a = b \/ DateLT(a, b)

MonthAbbr == <<"Jan", "Feb", "Mar", "Apr", "May", "Jun",
               "Jul", "Aug", "Sep", "Oct", "Nov", "Dec">>

\* ---------------------------------------------------------- the CSV file
\* A Date field is the text mm/dd/yyyy, held as <<mm, dd, yyyy>>.
DateFields ==
    { <<10, 7, 2019>>, <<11, 5, 2019>>, <<12, 2, 2019>>, <<12, 20, 2019>>,
      <<12, 15, 2020>> }

\* A price field: an optional "$", then either a decimal numeral of so many
\* cents or text that is not a number.
Price(sym, c) == [sym |-> sym, numeral |-> TRUE, cents |-> c]
NotANumber == [sym |-> FALSE, numeral |-> FALSE, cents |-> 0]

\* (Open, Close/Last) pairs of one trading day
Quotes ==
    { <<Price(TRUE, 250), Price(TRUE, 110)>>,
      <<Price(FALSE, 110), Price(TRUE, 1275)>> }

WellFormedRows ==
    { [Date |-> d, Open |-> q[1], Close |-> q[2]] : d \in DateFields, q \in Quotes }

MalformedRows ==
    { [Date |-> <<13, 5, 2019>>, Open |-> Price(TRUE, 110), Close |-> Price(TRUE, 250)],
      [Date |-> <<11, 5, 2019>>, Open |-> NotANumber, Close |-> Price(TRUE, 250)] }

CsvRows == WellFormedRows \cup MalformedRows

CsvFiles == UNION { [1..n -> CsvRows] : n \in 0..MaxRows }

\* ------------------------------------------------------- read_price_rows
\* datetime.strptime(text, "%m/%d/%Y") raises ValueError on these
StrptimeRaises(f) ==
    ~ (/\ f[1] \in 1..12
       /\ f[3] \in 1..9999
       /\ f[2] \in 1..DaysInMonth(f[3], f[1]))

Strptime(f) == DateTime(f[3], f[1], f[2])

\* float(text.replace("$", "")) raises ValueError on these
ParseFloatRaises(p) == ~ p.numeral

ParseFloat(p) == Round(p.cents * One, 100)

\* variant: a price that does not parse is read as 0.0 instead of raising
RowRaisesOnDateOnly(row) == StrptimeRaises(row.Date)

RowRaises(row) ==
    StrptimeRaises(row.Date) \/ ParseFloatRaises(row.Open) \/ ParseFloatRaises(row.Close)

ParseRow(row) ==
    [date |-> Strptime(row.Date), open |-> ParseFloat(row.Open),
     close |-> ParseFloat(row.Close)]

\* -------------------------------------------- compute_monthly_average_diff
Key(date) == <<date.year, date.month>>

\* position of key k in the insertion-ordered dict g, or 0
KeyIndex(g, k) ==
    IF \E i \in 1..Len(g) : g[i].key = k
    THEN CHOOSE i \in 1..Len(g) : g[i].key = k
    ELSE 0

\* variant: grouped[key] = [close_price - open_price], keeping the last only
GroupAppendOverwrite(g, row) ==
    LET k == Key(row.date)
        d == FSub(row.close, row.open)
        i == KeyIndex(g, k)
    IN  IF i = 0
        THEN Append(g, [key |-> k, diffs |-> <<d>>])
        ELSE [g EXCEPT ![i].diffs = <<d>>]

\* grouped[key].append(close_price - open_price)
GroupAppend(g, row) ==
    LET k == Key(row.date)
        d == FSub(row.close, row.open)
        i == KeyIndex(g, k)
    IN  IF i = 0
        THEN Append(g, [key |-> k, diffs |-> <<d>>])
        ELSE [g EXCEPT ![i].diffs = Append(@, d)]

RECURSIVE GroupRows(_, _)
GroupRows(rs, g) ==
    IF rs = <<>> THEN g ELSE GroupRows(Tail(rs), GroupAppend(g, Head(rs)))

\* sum(diffs): starts from the int 0 and adds left to right
RECURSIVE SumFrom(_, _)
SumFrom(acc, ds) == IF ds = <<>> THEN acc ELSE SumFrom(FAdd(acc, Head(ds)), Tail(ds))

Sum(ds) == SumFrom(0, ds)

\* sum(diffs) / len(diffs)
AvgDiff(ds) == FDiv(Sum(ds), ToFloat(Len(ds)))

Averaged(g) ==
    [i \in 1..Len(g) |->
        [date |-> DateTime(g[i].key[1], g[i].key[2], 1), value |-> AvgDiff(g[i].diffs)]]

\* list.sort(key=item[0]): stable, ascending
RECURSIVE InsertSorted(_, _)
InsertSorted(s, e) ==
    IF s = <<>> THEN <<e>>
    ELSE IF DateLT(e.date, Head(s).date) THEN <<e>> \o s
    ELSE <<Head(s)>> \o InsertSorted(Tail(s), e)

\* variant: the list is returned in dict order, without averaged.sort
SortByDateOmitted(s) == s

RECURSIVE SortByDate(_)
SortByDate(s) ==
    IF s = <<>> THEN <<>>
    ELSE InsertSorted(SortByDate(SubSeq(s, 1, Len(s) - 1)), s[Len(s)])

compute_monthly_average_diff(rs) == SortByDate(Averaged(GroupRows(rs, <<>>)))

\* ------------------------------------------------------------ scale_points
total_width == SVG_WIDTH - MARGIN_LEFT - MARGIN_RIGHT
total_height == SVG_HEIGHT - MARGIN_TOP - MARGIN_BOTTOM

\* min(dates), max(dates), min(values), max(values) of a non-empty list
MinDate(points) ==
    CHOOSE d \in {points[i].date : i \in 1..Len(points)} :
        \A j \in 1..Len(points) : DateLE(d, points[j].date)

MaxDate(points) ==
    CHOOSE d \in {points[i].date : i \in 1..Len(points)} :
        \A j \in 1..Len(points) : DateLE(points[j].date, d)

MinValue(points) ==
    CHOOSE v \in {points[i].value : i \in 1..Len(points)} :
        \A j \in 1..Len(points) : v <= points[j].value

MaxValue(points) ==
    CHOOSE v \in {points[i].value : i \in 1..Len(points)} :
        \A j \in 1..Len(points) : points[j].value <= v

\* the extrema scale_points returns, widened by 1 when the values are flat
Extrema(points) ==
    LET lo == MinValue(points)
        hi == MaxValue(points)
    IN  [min_date  |-> MinDate(points),
         max_date  |-> MaxDate(points),
         min_value |-> IF hi = lo THEN FSub(lo, One) ELSE lo,
         max_value |-> IF hi = lo THEN FAdd(hi, One) ELSE hi]

\* variant: span = (max_date - min_date).days, without "or 1"
DaySpanUnguarded(min_d, max_d) == DaysBetween(max_d, min_d)

\* span = (max_date - min_date).days or 1
DaySpan(min_d, max_d) ==
    IF DaysBetween(max_d, min_d) = 0 THEN 1 ELSE DaysBetween(max_d, min_d)

\* the denominator max_value - min_value of value_to_y
ValueSpan(min_v, max_v) == FSub(max_v, min_v)

date_to_x(date, ext) ==
    FAdd(ToFloat(MARGIN_LEFT),
         FMul(IntTrueDiv(DaysBetween(date, ext.min_date),
                         DaySpan(ext.min_date, ext.max_date)),
              ToFloat(total_width)))

value_to_y(value, ext) ==
    FAdd(ToFloat(MARGIN_TOP),
         FMul(FSub(One, FDiv(FSub(value, ext.min_value),
                             ValueSpan(ext.min_value, ext.max_value))),
              ToFloat(total_height)))

\* a division of date_to_x or value_to_y raises ZeroDivisionError
ScalingDividesByZero(ext) ==
    \/ DaySpan(ext.min_date, ext.max_date) = 0
    \/ ValueSpan(ext.min_value, ext.max_value) = 0

Scaled(points, ext) ==
    [i \in 1..Len(points) |->
        [x |-> date_to_x(points[i].date, ext), y |-> value_to_y(points[i].value, ext)]]

\* --------------------------------------------------------------- build_svg
\* " ".join(f"L{x:.2f},{y:.2f}" ...): one command per scaled point
JoinPath(sc) ==
    [i \in 1..Len(sc) |-> [cmd |-> "L", x |-> Fmt2(sc[i].x), y |-> Fmt2(sc[i].y)]]

\* variant: path_data is left as joined, every command an "L"
PathDataUnchanged(sc) == JoinPath(sc)

\* "M" + path_data[1:] when path_data is not empty: the first character,
\* the letter of the first command, is replaced
PathData(sc) ==
    LET joined == JoinPath(sc)
    IN  IF joined = <<>> THEN joined
        ELSE [joined EXCEPT ![1].cmd = "M"]

ValueTicks(ext) ==
    [k \in 1..tick_count |->
        FAdd(ext.min_value,
             FDiv(FMul(ToFloat(k - 1), FSub(ext.max_value, ext.min_value)),
                  ToFloat(tick_count - 1)))]

\* coordinates written without formatting are held in hundredths too
Px(n) == n * 100

HeaderLines(path) ==
    << [tag |-> "svg", width |-> SVG_WIDTH, height |-> SVG_HEIGHT],
       [tag |-> "style"],
       [tag |-> "rect", width |-> SVG_WIDTH, height |-> SVG_HEIGHT],
       [tag |-> "path", stroke |-> "black",
        d |-> << [cmd |-> "M", x |-> Px(MARGIN_LEFT), y |-> Px(MARGIN_TOP)],
                 [cmd |-> "V", x |-> Px(MARGIN_LEFT), y |-> Px(SVG_HEIGHT - MARGIN_BOTTOM)],
                 [cmd |-> "H", x |-> Px(SVG_WIDTH - MARGIN_RIGHT),
                  y |-> Px(SVG_HEIGHT - MARGIN_BOTTOM)] >>],
       IF path # <<>> THEN [tag |-> "path", stroke |-> "#1f77b4", d |-> path]
                      ELSE [tag |-> ""],
       [tag |-> "text", text |-> "Average Difference Between Close and Open Prices (Monthly)"],
       [tag |-> "text", text |-> "Month"],
       [tag |-> "text", text |-> "Average Close - Open ($)"] >>

Circles(sc) ==
    [i \in 1..Len(sc) |->
        [tag |-> "circle", cx |-> Fmt2(sc[i].x), cy |-> Fmt2(sc[i].y), r |-> 4]]

RECURSIVE ValueTickLines(_, _)
ValueTickLines(ticks, ext) ==
    IF ticks = <<>> THEN <<>>
    ELSE LET value == Head(ticks)
             y == value_to_y(value, ext)
         IN  << [tag |-> "line", x1 |-> Px(MARGIN_LEFT - 5), y1 |-> Fmt2(y),
                 x2 |-> Px(MARGIN_LEFT), y2 |-> Fmt2(y)],
                [tag |-> "text", anchor |-> "end", x |-> Px(MARGIN_LEFT - 10),
                 y |-> Fmt2(FAdd(y, ToFloat(5))), value |-> Fmt2(value)] >>
             \o ValueTickLines(Tail(ticks), ext)

DateTickLines(cur, ext) ==
    LET x == date_to_x(cur, ext)
    IN  << [tag |-> "line", x1 |-> Fmt2(x), y1 |-> Px(SVG_HEIGHT - MARGIN_BOTTOM),
            x2 |-> Fmt2(x), y2 |-> Px(SVG_HEIGHT - MARGIN_BOTTOM + 5)],
           [tag |-> "text", anchor |-> "middle", x |-> Fmt2(x),
            y |-> Px(SVG_HEIGHT - MARGIN_BOTTOM + 25),
            month |-> MonthAbbr[cur.month], year |-> cur.year] >>

\* variant: the wrap past December keeps the year
NextQuarterSameYear(cur) ==
    IF cur.month >= 10
    THEN DateTime(cur.year, ((cur.month + 3 - 1) % 12) + 1, 1)
    ELSE DateTime(cur.year, cur.month + 3, 1)

\* the month three months after cur
NextQuarter(cur) ==
    IF cur.month >= 10
    THEN DateTime(cur.year + 1, ((cur.month + 3 - 1) % 12) + 1, 1)
    ELSE DateTime(cur.year, cur.month + 3, 1)

\* "\n".join(line for line in svg_lines if line)
JoinLines(lines) == SelectSeq(lines, LAMBDA l : l.tag # "")

\* ------------------------------------------------------------------ state
VARIABLES
    pc,            \* position in main()
    fileExists,    \* data_path.exists()
    csv,           \* the data rows of the CSV file
    rows,          \* list(read_price_rows(data_path)), as read so far
    monthly_diff,  \* result of compute_monthly_average_diff
    ext,           \* extrema returned by scale_points
    scaled_points, \* scaled points returned by scale_points
    value_ticks,   \* build_svg: value_ticks
    svg_lines,     \* build_svg: svg_lines
    current,       \* build_svg: date-axis loop variable
    svg_content,   \* main: the document returned by build_svg
    plotsDir,      \* the plots directory exists
    outputFile,    \* contents of plots/average_open_close_difference.svg
    stdout,        \* lines printed
    error          \* the exception that ended the run, or "none"

vars == <<pc, fileExists, csv, rows, monthly_diff, ext, scaled_points, value_ticks,
          svg_lines, current, svg_content, plotsDir, outputFile, stdout, error>>

NoDate == DateTime(0, 0, 0)
NoExt == [min_date |-> NoDate, max_date |-> NoDate, min_value |-> 0, max_value |-> 0]
NoFile == <<[tag |-> "absent"]>>

Init ==
    /\ pc = "start"
    /\ fileExists \in BOOLEAN
    /\ csv \in CsvFiles
    /\ rows = <<>>
    /\ monthly_diff = <<>>
    /\ ext = NoExt
    /\ scaled_points = <<>>
    /\ value_ticks = <<>>
    /\ svg_lines = <<>>
    /\ current = NoDate
    /\ svg_content = <<>>
    /\ plotsDir = FALSE
    /\ outputFile = NoFile
    /\ stdout = <<>>
    /\ error = "none"

Raise(e) == pc' = "raised" /\ error' = e

\* variant: the existence check is skipped
CheckDataPathSkipped ==
    /\ pc = "start"
    /\ pc' = "read"
    /\ UNCHANGED <<fileExists, csv, rows, monthly_diff, ext, scaled_points, value_ticks,
                   svg_lines, current, svg_content, plotsDir, outputFile, stdout, error>>

\* main: if not data_path.exists(): raise FileNotFoundError
CheckDataPath ==
    /\ pc = "start"
    /\ IF fileExists
       THEN pc' = "read" /\ error' = error
       ELSE Raise("FileNotFoundError")
    /\ UNCHANGED <<fileExists, csv, rows, monthly_diff, ext, scaled_points, value_ticks,
                   svg_lines, current, svg_content, plotsDir, outputFile, stdout>>

\* read_price_rows: one iteration of the loop over the reader, feeding list()
ReadPriceRow ==
    /\ pc = "read"
    /\ Len(rows) < Len(csv)
    /\ LET row == csv[Len(rows) + 1]
       IN  IF RowRaises(row)
           THEN Raise("ValueError") /\ rows' = rows
           ELSE rows' = Append(rows, ParseRow(row)) /\ pc' = pc /\ error' = error
    /\ UNCHANGED <<fileExists, csv, monthly_diff, ext, scaled_points, value_ticks,
                   svg_lines, current, svg_content, plotsDir, outputFile, stdout>>

\* main: monthly_diff = compute_monthly_average_diff(rows), once the reader
\* is exhausted
ComputeMonthlyAverageDiff ==
    /\ pc = "read"
    /\ Len(rows) = Len(csv)
    /\ monthly_diff' = compute_monthly_average_diff(rows)
    /\ pc' = "scale"
    /\ UNCHANGED <<fileExists, csv, rows, ext, scaled_points, value_ticks,
                   svg_lines, current, svg_content, plotsDir, outputFile, stdout, error>>

\* build_svg: scale_points(points)
ScalePoints ==
    /\ pc = "scale"
    /\ IF monthly_diff = <<>>
       THEN \* min() arg is an empty sequence
            Raise("ValueError") /\ UNCHANGED <<ext, scaled_points>>
       ELSE LET e == Extrema(monthly_diff)
            IN  IF ScalingDividesByZero(e)
                THEN Raise("ZeroDivisionError") /\ UNCHANGED <<ext, scaled_points>>
                ELSE /\ ext' = e
                     /\ scaled_points' = Scaled(monthly_diff, e)
                     /\ pc' = "header"
                     /\ error' = error
    /\ UNCHANGED <<fileExists, csv, rows, monthly_diff, value_ticks,
                   svg_lines, current, svg_content, plotsDir, outputFile, stdout>>

\* build_svg: path_data, value_ticks and the first eight svg_lines
BuildHeader ==
    /\ pc = "header"
    /\ value_ticks' = ValueTicks(ext)
    /\ svg_lines' = HeaderLines(PathData(scaled_points))
    /\ pc' = "points"
    /\ UNCHANGED <<fileExists, csv, rows, monthly_diff, ext, scaled_points,
                   current, svg_content, plotsDir, outputFile, stdout, error>>

\* build_svg: the loop adding one circle per point
AddPoints ==
    /\ pc = "points"
    /\ svg_lines' = svg_lines \o Circles(scaled_points)
    /\ pc' = "yticks"
    /\ UNCHANGED <<fileExists, csv, rows, monthly_diff, ext, scaled_points, value_ticks,
                   current, svg_content, plotsDir, outputFile, stdout, error>>

\* build_svg: the loop adding the value-axis ticks and labels, then the
\* initialisation of the date-axis loop
AddValueTicks ==
    /\ pc = "yticks"
    /\ svg_lines' = svg_lines \o ValueTickLines(value_ticks, ext)
    /\ current' = DateTime(ext.min_date.year, ext.min_date.month, 1)
    /\ pc' = "xticks"
    /\ UNCHANGED <<fileExists, csv, rows, monthly_diff, ext, scaled_points, value_ticks,
                   svg_content, plotsDir, outputFile, stdout, error>>

\* build_svg: one iteration of "while current <= max_date"
AddDateTick ==
    /\ pc = "xticks"
    /\ DateLE(current, ext.max_date)
    /\ svg_lines' = svg_lines \o DateTickLines(current, ext)
    /\ current' = NextQuarter(current)
    /\ UNCHANGED <<pc, fileExists, csv, rows, monthly_diff, ext, scaled_points,
                   value_ticks, svg_content, plotsDir, outputFile, stdout, error>>

\* build_svg: loop exit, "</svg>" and the join that returns the document
FinishSvg ==
    /\ pc = "xticks"
    /\ ~ DateLE(current, ext.max_date)
    /\ svg_lines' = Append(svg_lines, [tag |-> "/svg"])
    /\ svg_content' = JoinLines(svg_lines')
    /\ pc' = "mkdir"
    /\ UNCHANGED <<fileExists, csv, rows, monthly_diff, ext, scaled_points, value_ticks,
                   current, plotsDir, outputFile, stdout, error>>

\* main: output_dir.mkdir(parents=True, exist_ok=True)
MakePlotsDir ==
    /\ pc = "mkdir"
    /\ plotsDir' = TRUE
    /\ pc' = "write"
    /\ UNCHANGED <<fileExists, csv, rows, monthly_diff, ext, scaled_points, value_ticks,
                   svg_lines, current, svg_content, outputFile, stdout, error>>

\* main: output_file.write_text(svg_content)
WriteOutput ==
    /\ pc = "write"
    /\ outputFile' = svg_content
    /\ pc' = "print"
    /\ UNCHANGED <<fileExists, csv, rows, monthly_diff, ext, scaled_points, value_ticks,
                   svg_lines, current, svg_content, plotsDir, stdout, error>>

\* main: print(f"Saved plot to {output_file}")
PrintSaved ==
    /\ pc = "print"
    /\ stdout' = Append(stdout, "Saved plot to plots/average_open_close_difference.svg")
    /\ pc' = "done"
    /\ UNCHANGED <<fileExists, csv, rows, monthly_diff, ext, scaled_points, value_ticks,
                   svg_lines, current, svg_content, plotsDir, outputFile, error>>

Next ==
    \/ CheckDataPath
    \/ ReadPriceRow
    \/ ComputeMonthlyAverageDiff
    \/ ScalePoints
    \/ BuildHeader
    \/ AddPoints
    \/ AddValueTicks
    \/ AddDateTick
    \/ FinishSvg
    \/ MakePlotsDir
    \/ WriteOutput
    \/ PrintSaved

Spec == Init /\ [][Next]_vars

TypeOK ==
    /\ pc \in {"start", "read", "scale", "header", "points", "yticks", "xticks",
               "mkdir", "write", "print", "done", "raised"}
    /\ error \in {"none", "FileNotFoundError", "ValueError", "ZeroDivisionError"}

\* ------------------------------------------------------------ properties
Aggregated == pc \in {"scale", "header", "points", "yticks", "xticks",
                      "mkdir", "write", "print", "done"}
ScaledDone == pc \in {"header", "points", "yticks", "xticks",
                      "mkdir", "write", "print", "done"}
PointsAdded == pc \in {"yticks", "xticks", "mkdir", "write", "print", "done"}

MonthsOf(rs) == { Key(rs[i].date) : i \in 1..Len(rs) }

\* the rows of month k, in input order
RowsOfMonth(rs, k) == SelectSeq(rs, LAMBDA r : r.date.year = k[1] /\ r.date.month = k[2])

\* the float mean of close - open over rs, added up in input order
RECURSIVE RefSum(_, _)
RefSum(rs, n) ==
    IF n = 0 THEN 0 ELSE FAdd(RefSum(rs, n - 1), FSub(rs[n].close, rs[n].open))

RefMean(rs) == Round(RefSum(rs, Len(rs)) * One, Len(rs) * One)

EntriesOf(k) ==
    { i \in 1..Len(monthly_diff) : monthly_diff[i].date = DateTime(k[1], k[2], 1) }

\* C1: compute_monthly_average_diff returns exactly one entry per distinct
\* (year, month) of the input, keyed by the first day of that month, whose
\* value is the mean of close - open over the records of that month (as the
\* float arithmetic evaluates it, adding in input order); a month with one
\* record yields that record's difference; no records yield no entries.
C1_OneMeanPerMonth ==
    Aggregated =>
        /\ Len(monthly_diff) = Cardinality(MonthsOf(rows))
        /\ \A i \in 1..Len(monthly_diff) :
              /\ Key(monthly_diff[i].date) \in MonthsOf(rows)
              /\ monthly_diff[i].date.day = 1
        /\ \A k \in MonthsOf(rows) :
              /\ Cardinality(EntriesOf(k)) = 1
              /\ \A i \in EntriesOf(k) :
                    LET rs == RowsOfMonth(rows, k)
                    IN  /\ monthly_diff[i].value = RefMean(rs)
                        /\ Len(rs) = 1 =>
                              monthly_diff[i].value = FSub(rs[1].close, rs[1].open)
        /\ (rows = <<>> => monthly_diff = <<>>)

C1_Witness ==
    /\ Aggregated
    /\ Len(monthly_diff) = 2
    /\ Len(rows) = 3
    /\ \E k \in MonthsOf(rows) : Len(RowsOfMonth(rows, k)) = 1
    /\ \E k \in MonthsOf(rows) :
          /\ Len(RowsOfMonth(rows, k)) = 2
          /\ RowsOfMonth(rows, k)[1].date # RowsOfMonth(rows, k)[2].date

\* C2: the sequence returned by compute_monthly_average_diff is strictly
\* ascending by month key, hence without duplicate keys, whatever the order
\* of the input records.
C2_StrictlyAscending ==
    Aggregated =>
        \A i, j \in 1..Len(monthly_diff) :
            i < j => DateLT(monthly_diff[i].date, monthly_diff[j].date)

C2_Witness ==
    /\ Aggregated
    /\ Len(monthly_diff) = 3
    /\ \A i \in 1..(Len(rows) - 1) : DateLT(rows[i + 1].date, rows[i].date)

FrameLines(lines) == SelectSeq(lines, LAMBDA l : l.tag = "path" /\ l.stroke = "black")
DataPaths(lines) == SelectSeq(lines, LAMBDA l : l.tag = "path" /\ l.stroke # "black")
CircleLines(lines) == SelectSeq(lines, LAMBDA l : l.tag = "circle")
TitleLines(lines) == SelectSeq(lines, LAMBDA l : l.tag = "text" /\ "text" \in DOMAIN l)
ValueLabels(lines) == SelectSeq(lines, LAMBDA l : l.tag = "text" /\ "value" \in DOMAIN l)
DateLabels(lines) == SelectSeq(lines, LAMBDA l : l.tag = "text" /\ "month" \in DOMAIN l)
DateMarks(lines) ==
    SelectSeq(lines, LAMBDA l : l.tag = "line" /\ l.x1 # Px(MARGIN_LEFT - 5))

\* C3: with an empty dataset (header-only CSV) scaling and rendering complete
\* without raising, and the document has the axis frame and the labels but
\* no data path and no point markers.
C3_EmptyDatasetRenders ==
    (fileExists /\ csv = <<>>) =>
        /\ error = "none"
        /\ pc = "done" =>
              /\ Len(FrameLines(outputFile)) = 1
              /\ Len(TitleLines(outputFile)) = 3
              /\ Len(DataPaths(outputFile)) = 0
              /\ Len(CircleLines(outputFile)) = 0

\* C4: when the input file does not exist, main raises FileNotFoundError
\* before any processing: no row is read, nothing is aggregated or rendered,
\* the plots directory is not created, no output file is written and no
\* confirmation is printed.
C4_MissingFileStopsFirst ==
    ~ fileExists =>
        /\ pc \in {"start", "raised"}
        /\ pc = "raised" => error = "FileNotFoundError"
        /\ rows = <<>>
        /\ monthly_diff = <<>>
        /\ svg_lines = <<>>
        /\ svg_content = <<>>
        /\ ~ plotsDir
        /\ outputFile = NoFile
        /\ stdout = <<>>

C4_Witness ==
    /\ ~ fileExists
    /\ pc = "raised"
    /\ error = "FileNotFoundError"
    /\ Len(csv) = MaxRows

BadRows ==
    { i \in 1..Len(csv) :
        \/ StrptimeRaises(csv[i].Date)
        \/ ParseFloatRaises(csv[i].Open)
        \/ ParseFloatRaises(csv[i].Close) }
FirstBadRow == CHOOSE i \in BadRows : \A j \in BadRows : i <= j

\* C5: if any row, at any position, has a date or price field that cannot be
\* parsed, the run ends with an error and no partial result: the row is not
\* skipped, nothing is aggregated, the output file is never written and the
\* confirmation is never printed.
C5_MalformedRowIsFatal ==
    (fileExists /\ BadRows # {}) =>
        /\ pc \in {"start", "read", "raised"}
        /\ pc = "read" => Len(rows) < FirstBadRow
        /\ pc = "raised" => (error = "ValueError" /\ Len(rows) = FirstBadRow - 1)
        /\ monthly_diff = <<>>
        /\ outputFile = NoFile
        /\ stdout = <<>>

C5_Witness ==
    /\ fileExists
    /\ pc = "raised"
    /\ error = "ValueError"
    /\ Len(csv) = 3
    /\ BadRows = {2}
    /\ ParseFloatRaises(csv[2].Open)
    /\ Len(rows) = 1

C5_WitnessDate ==
    /\ fileExists
    /\ pc = "raised"
    /\ BadRows = {Len(csv)}
    /\ StrptimeRaises(csv[Len(csv)].Date)

Shuffles(n) == { f \in [1..n -> 1..n] : \A i, j \in 1..n : i # j => f[i] # f[j] }

\* C6: shuffling the input records does not change the result of
\* compute_monthly_average_diff (same keys, same values, same order).
C6_ShuffleInvariant ==
    Aggregated =>
        \A f \in Shuffles(Len(rows)) :
            compute_monthly_average_diff([i \in 1..Len(rows) |-> rows[f[i]]]) = monthly_diff

Flat == \A i, j \in 1..Len(monthly_diff) : monthly_diff[i].value = monthly_diff[j].value

\* C7: when all values equal the same v, scale_points returns the value
\* extrema (v - 1, v + 1) and the value-axis ticks run from v - 1 to v + 1
\* inclusive; otherwise the extrema are the true min and max, unwidened.
C7_FlatRangeAndTicks ==
    /\ ScaledDone =>
          IF Flat
          THEN /\ ext.min_value = FSub(monthly_diff[1].value, One)
               /\ ext.max_value = FAdd(monthly_diff[1].value, One)
          ELSE /\ ext.min_value = MinValue(monthly_diff)
               /\ ext.max_value = MaxValue(monthly_diff)
    /\ (PointsAdded /\ Flat) =>
          /\ Len(value_ticks) = tick_count
          /\ value_ticks[1] = FSub(monthly_diff[1].value, One)
          /\ value_ticks[tick_count] = FAdd(monthly_diff[1].value, One)

PointAt(l, i) ==
    /\ l.x = Fmt2(date_to_x(monthly_diff[i].date, ext))
    /\ l.y = Fmt2(value_to_y(monthly_diff[i].value, ext))

C9_DocMarkersAndPath(doc) ==
    LET n == Len(monthly_diff)
        cs == CircleLines(doc)
        ps == DataPaths(doc)
    IN  /\ n > 0
        /\ Len(cs) = n
        /\ \A i \in 1..n : PointAt([x |-> cs[i].cx, y |-> cs[i].cy], i)
        /\ Len(ps) = 1
        /\ Len(ps[1].d) = n
        /\ \A i \in 1..n :
              /\ ps[1].d[i].cmd = (IF i = 1 THEN "M" ELSE "L")
              /\ PointAt(ps[1].d[i], i)
        /\ \A i \in 1..(n - 1) : DateLT(monthly_diff[i].date, monthly_diff[i + 1].date)

C9_MarkersAndPath ==
    /\ pc = "yticks" => C9_DocMarkersAndPath(svg_lines)
    /\ pc = "mkdir" => C9_DocMarkersAndPath(svg_content)
    /\ pc = "done" => C9_DocMarkersAndPath(outputFile)

C9_Witness ==
    /\ pc = "done"
    /\ Len(monthly_diff) = 3
    /\ ~ Flat

\* C10: the date-axis loop terminates and emits one tick and one label for
\* each month 3k months after the first month present and not later than the
\* last, in ascending order and correctly across year boundaries, each at
\* the x date_to_x gives for the first day of that month.  Termination is
\* the bound on the number of iterations: each iteration adds one label.
MonthIndex(d) == d.year * 12 + d.month - 1
MonthOfIndex(i) == DateTime(i \div 12, (i % 12) + 1, 1)
ExpectedDateTicks == (MonthIndex(ext.max_date) - MonthIndex(ext.min_date)) \div 3 + 1

C10_DocDateTicks(doc) ==
    LET labels == DateLabels(doc)
        marks == DateMarks(doc)
    IN  /\ Len(labels) <= ExpectedDateTicks
        /\ Len(marks) = Len(labels)
        /\ \A k \in 1..Len(labels) :
              LET d == MonthOfIndex(MonthIndex(ext.min_date) + 3 * (k - 1))
              IN  /\ labels[k].month = MonthAbbr[d.month]
                  /\ labels[k].year = d.year
                  /\ labels[k].x = Fmt2(date_to_x(d, ext))
                  /\ marks[k].x1 = labels[k].x
                  /\ marks[k].x2 = labels[k].x

====
